---- MODULE Spec2Model ----
(***************************************************************************)
(* Model of the auction round engine of AUCTION/Auction.py.                *)
(*                                                                         *)
(* The program is one asyncio event loop.  Telegram updates are handled     *)
(* one at a time (the Application is built without concurrent_updates), so  *)
(* there is one handler task; job-queue callbacks run as tasks of their     *)
(* own and interleave with the handler at every await.  A task is modelled  *)
(* by its position (pc) at the awaits that separate state changes.          *)
(*                                                                         *)
(* Money is counted in thousandths of a rupee (0.1 = 100), so that the      *)
(* two-decimal rounding of the purse is visible.  Time is counted in        *)
(* seconds; timers and deadlines are kept as the time that remains.         *)
(***************************************************************************)
EXTENDS Integers, Sequences, FiniteSets, TLC

\* ------------------------------------------------------------------ bounds
\* rounds opened in one behaviour, per specification
MaxRounds == 2
MaxRoundsAuto == 3
MaxRoundsOne == 1
\* job-queue callbacks running at the same time
MaxJobTasks == 1
\* records in auction_history, entries in one team's roster
MaxHistory == 2
MaxHistoryAuto == 3
MaxHistoryRun == 4
MaxRoster == 2

\* ------------------------------------------------------------ input domains
Users == {1, 2}
TeamNames == {"Kings", "Royals"}
OneTeamName == {"Kings"}
PurseInputs == {400, 0}
\* two purses /register accepts
FreshPurses == {400, 300}
SettingNames == {"timer", "reminder", "auto_next", "increment"}
SettingInputs == {0, 5, 20}
TimerSettingNames == {"timer", "reminder"}
\* the values of /settings auto_next: 1 is among "true", "yes", "1"
SwitchInputs == {0, 1}
\* one value for every setting: below the least timer and the least increment
LowSettingInputs == {5}

\* the names /settings knows, and those whose value is parsed as a number
KnownSettings == {"timer", "reminder", "auto_next", "photos", "increment"}
NumericSettings == {"timer", "reminder", "increment"}
\* every name an admin may type, one of them unknown
TypedSettingNames == KnownSettings \cup {"speed"}
\* a value int() and float() reject, such as "abc"
Malformed == -999
\* values below, inside and above the ranges of timer, reminder and increment
TypedSettingInputs == {Malformed, 0, 1, 5, 20, 200, 500}

\* float("nan"), as parsed by float(context.args[0])
NaN == -1
BidInputs == {100, 200, 500}
RichBidInputs == {200, 304}
ButtonInputs == {200}
FloatBidInputs == {200, NaN}
OneBidInputs == {200}
\* a user who captains no team of the snapshot
NewCaptains == {3}

\* None for a user id, a team name, a deadline and a lot
NoUser == 0
NoTeam == "None"
NoTimer == -2
\* what a file holds: nothing (no such file), a whole snapshot, or the part of
\* a snapshot that json.dump wrote before it raised
NoFile == "absent"
Complete == "complete"
Partial == "partial"
NoLot == [name |-> "None", base_price |-> 0]

\* None for auction_stats["most_expensive_player"]
NoSale ==
    [name |-> "None", base_price |-> 0, purchase_price |-> 0, purchased_by |-> "None",
     auction_number |-> 0, rnd |-> 0]

Lot1 == [name |-> "p1", base_price |-> 100]
Lot2 == [name |-> "p2", base_price |-> 100]
Lot3 == [name |-> "p3", base_price |-> 100]
Catalog == <<Lot1, Lot2>>
LongCatalog == <<Lot1, Lot2, Lot3>>
ShortCatalog == <<Lot1>>

SleepSeconds == 3
CentUnits == 10
MaxAge == 30

\* ------------------------------------------------------- float arithmetic
FLt(a, b) == a # NaN /\ b # NaN /\ a < b
FGt(a, b) == FLt(b, a)
FLe(a, b) == a # NaN /\ b # NaN /\ a <= b
FEq(a, b) == a # NaN /\ b # NaN /\ a = b
FAdd(a, b) == IF a = NaN \/ b = NaN THEN NaN ELSE a + b
FSub(a, b) == IF a = NaN \/ b = NaN THEN NaN ELSE a - b

\* round(x, 2): the nearest multiple of one hundredth
Round2(x) ==
    IF x = NaN THEN NaN
    ELSE LET r == x % CentUnits
         IN  IF 2 * r < CentUnits THEN x - r ELSE x - r + CentUnits

\* ------------------------------------------------------------ list helpers
Max2(a, b) == IF a > b THEN a ELSE b
Min2(a, b) == IF a < b THEN a ELSE b

InList(x, s) == \E i \in 1..Len(s) : s[i] = x

FirstIndex(x, s) == CHOOSE i \in 1..Len(s) : s[i] = x /\ \A j \in 1..(i - 1) : s[j] # x

\* list.remove(x) for an x that is in the list
ListRemove(x, s) ==
    LET k == FirstIndex(x, s)
    IN  [i \in 1..(Len(s) - 1) |-> IF i < k THEN s[i] ELSE s[i + 1]]

\* ------------------------------------------------------------------- state
VARIABLES
    \* the fields of auction_data (Auction.py lines 36-67)
    is_auction_live,
    current_player,
    current_bid,
    highest_bidder_id,
    highest_bidder_name,
    teams,
    players,
    available_players,
    sold_players,
    unsold_players,
    auction_history,
    bidding_timer,
    timer_reminder_sent,
    auction_stats,
    settings,
    \* the job queue: the pending run_once jobs, each with the time that remains
    jobs,
    \* the handler task and the job tasks
    h,
    jt,
    \* history variables: rounds opened, last accepted bid, last step
    round_seq,
    last_acc,
    ev,
    \* the snapshot file DB_FILE and its companion DB_FILE + ".backup"
    db_file,
    db_backup

round_vars == <<is_auction_live, current_player, current_bid, highest_bidder_id,
                highest_bidder_name>>
catalog_vars == <<players, available_players, sold_players, unsold_players>>
timer_vars == <<bidding_timer, timer_reminder_sent, jobs>>
disk_vars == <<db_file, db_backup>>
vars == <<is_auction_live, current_player, current_bid, highest_bidder_id,
          highest_bidder_name, teams, players, available_players, sold_players,
          unsold_players, auction_history, bidding_timer, timer_reminder_sent,
          auction_stats, settings, jobs, h, jt, round_seq, last_acc, ev, db_file,
          db_backup>>

\* a task: its position, the round it works for, and the rest of its sleep
Task(pc, rnd, rem) == [pc |-> pc, rnd |-> rnd, rem |-> rem]
IdleTask == Task("idle", 0, 0)

\* the event of the last step: what was done and what was answered
Ev(op, res, rnd, jrnd) == [op |-> op, res |-> res, rnd |-> rnd, jrnd |-> jrnd]

NoStats ==
    [total_auctions |-> 0, total_amount_spent |-> 0, highest_bid |-> 0,
     most_expensive_player |-> NoSale, average_price |-> <<0, 1>>]

DefaultSettings ==
    [timer_duration |-> 30, reminder_time |-> 3, auto_next |-> TRUE,
     bidding_increment |-> 100]

NoBid == [rnd |-> 0, amt |-> 0, team |-> NoTeam, age |-> 0]

NewTeam(purse, captain) ==
    [purse |-> purse, original_purse |-> purse, players |-> <<>>, captain_id |-> captain]

NoTeams == [n \in {} |-> NewTeam(0, NoUser)]

\* the state main() starts from: the module's auction_data, updated by
\* load_data() with the snapshot in DB_FILE (teams and catalog as saved)
InitFrom(teams0, catalog0) ==
    /\ is_auction_live = FALSE
    /\ current_player = NoLot
    /\ current_bid = 0
    /\ highest_bidder_id = NoUser
    /\ highest_bidder_name = NoTeam
    /\ teams = teams0
    /\ players = catalog0
    /\ available_players = catalog0
    /\ sold_players = <<>>
    /\ unsold_players = <<>>
    /\ auction_history = <<>>
    /\ bidding_timer = NoTimer
    /\ timer_reminder_sent = FALSE
    /\ auction_stats = NoStats
    /\ settings = DefaultSettings
    /\ jobs = <<>>
    /\ h = IdleTask
    /\ jt = [i \in 1..MaxJobTasks |-> IdleTask]
    /\ round_seq = 0
    /\ last_acc = NoBid
    /\ ev = Ev("init", "ok", 0, 0)
    /\ db_file = IF teams0 = NoTeams /\ catalog0 = <<>> THEN NoFile ELSE Complete
    /\ db_backup = IF teams0 = NoTeams /\ catalog0 = <<>> THEN NoFile ELSE Complete

\* a snapshot saved after /register and /set_captain for both teams
SavedTeams == [n \in TeamNames |-> NewTeam(400, IF n = "Kings" THEN 1 ELSE 2)]

\* no snapshot file, or the snapshot of a prepared auction
Init == InitFrom(NoTeams, <<>>) \/ InitFrom(SavedTeams, Catalog)

\* ------------------------------------------------------------------- tasks
\* ctx 0 is the handler task, ctx i > 0 the i-th job task
TaskOf(ctx) == IF ctx = 0 THEN h ELSE jt[ctx]

SetTask(ctx, t) ==
    IF ctx = 0
    THEN h' = t /\ jt' = jt
    ELSE jt' = [jt EXCEPT ![ctx] = t] /\ h' = h

\* the first team, in registration order of the dict, whose captain is uid
CaptainTeams(uid) == {n \in DOMAIN teams : teams[n].captain_id = uid}
TeamOfCaptain(uid) ==
    IF CaptainTeams(uid) = {} THEN NoTeam ELSE CHOOSE n \in CaptainTeams(uid) : TRUE

\* ------------------------------------------------------------------ timers
Job(name, rem, rnd) == [name |-> name, rem |-> rem, rnd |-> rnd]

\* start_timer scheduling the reminder whatever the duration
ArmedJobs_AlwaysReminder(duration, rnd) ==
    <<Job("timer_reminder", Max2(0, duration - settings.reminder_time), rnd),
      Job("end_auction", duration, rnd)>>

\* the jobs start_timer schedules with run_once
ArmedJobs(duration, rnd) ==
    (IF duration > settings.reminder_time
     THEN <<Job("timer_reminder", duration - settings.reminder_time, rnd)>>
     ELSE <<>>)
    \o <<Job("end_auction", duration, rnd)>>

\* the jobs left in the queue by reset_timer
reset_timer_jobs(q) ==
    SelectSeq(q, LAMBDA j : j.name \notin {"timer_reminder", "end_auction"})

reset_timer ==
    /\ jobs' = reset_timer_jobs(jobs)
    /\ bidding_timer' = NoTimer
    /\ timer_reminder_sent' = FALSE

\* start_timer on a queue q (the queue as the caller left it)
start_timer(q, duration, rnd) ==
    /\ bidding_timer' = duration
    /\ timer_reminder_sent' = FALSE
    /\ jobs' = q \o ArmedJobs(duration, rnd)

\* reset_timer() followed by start_timer(), as the bid paths call them
rearm_timer(duration, rnd) == start_timer(reset_timer_jobs(jobs), duration, rnd)

\* ------------------------------------------------------------- persistence
\* save_data() while bidding_timer is timer: the file is renamed to the backup,
\* then opened for writing and json.dump writes the snapshot; a datetime in
\* bidding_timer makes json.dump raise after the fields before it were written
save_data(timer) ==
    /\ db_backup' = IF db_file = NoFile THEN db_backup ELSE db_file
    /\ db_file' = IF timer = NoTimer THEN Complete ELSE Partial

\* ------------------------------------------------------------ registration
\* /register without the test for a team of that name
register_NoExistingCheck(name, purse) ==
    /\ h.pc = "idle"
    /\ IF FLe(purse, 0)
       THEN /\ teams' = teams
            /\ ev' = Ev("register", "rejected", 0, 0)
            /\ UNCHANGED disk_vars
       ELSE /\ teams' = [n \in DOMAIN teams \cup {name} |->
                           IF n = name THEN NewTeam(purse, NoUser) ELSE teams[n]]
            /\ ev' = Ev("register", "ok", 0, 0)
            /\ save_data(bidding_timer)
    /\ UNCHANGED <<round_vars, catalog_vars, timer_vars, auction_history, auction_stats,
                   settings, h, jt, round_seq, last_acc>>

register(name, purse) ==
    /\ h.pc = "idle"
    /\ IF FLe(purse, 0) \/ name \in DOMAIN teams
       THEN /\ teams' = teams
            /\ ev' = Ev("register", "rejected", 0, 0)
            /\ UNCHANGED disk_vars
       ELSE /\ teams' = [n \in DOMAIN teams \cup {name} |->
                           IF n = name THEN NewTeam(purse, NoUser) ELSE teams[n]]
            /\ ev' = Ev("register", "ok", 0, 0)
            /\ save_data(bidding_timer)
    /\ UNCHANGED <<round_vars, catalog_vars, timer_vars, auction_history, auction_stats,
                   settings, h, jt, round_seq, last_acc>>

\* /set_captain without the loop that looks for the user among the captains
set_captain_NoDuplicateCheck(name, uid) ==
    /\ h.pc = "idle"
    /\ IF name \notin DOMAIN teams
       THEN /\ teams' = teams
            /\ ev' = Ev("set_captain", "not_found", 0, 0)
            /\ UNCHANGED disk_vars
       ELSE /\ teams' = [teams EXCEPT ![name].captain_id = uid]
            /\ ev' = Ev("set_captain", "ok", 0, 0)
            /\ save_data(bidding_timer)
    /\ UNCHANGED <<round_vars, catalog_vars, timer_vars, auction_history, auction_stats,
                   settings, h, jt, round_seq, last_acc>>

\* /set_captain <team>, sent as a reply to the user uid
set_captain(name, uid) ==
    /\ h.pc = "idle"
    /\ IF name \notin DOMAIN teams
       THEN /\ teams' = teams
            /\ ev' = Ev("set_captain", "not_found", 0, 0)
            /\ UNCHANGED disk_vars
       ELSE IF \E n \in DOMAIN teams : teams[n].captain_id = uid
       THEN /\ teams' = teams
            /\ ev' = Ev("set_captain", "already_captain", 0, 0)
            /\ UNCHANGED disk_vars
       ELSE /\ teams' = [teams EXCEPT ![name].captain_id = uid]
            /\ ev' = Ev("set_captain", "ok", 0, 0)
            /\ save_data(bidding_timer)
    /\ UNCHANGED <<round_vars, catalog_vars, timer_vars, auction_history, auction_stats,
                   settings, h, jt, round_seq, last_acc>>

load_players ==
    /\ h.pc = "idle"
    /\ players' = Catalog
    /\ available_players' = Catalog
    /\ ev' = Ev("load_players", "ok", 0, 0)
    /\ UNCHANGED <<round_vars, teams, sold_players, unsold_players, timer_vars,
                   auction_history, auction_stats, settings, h, jt, round_seq, last_acc>>
    /\ save_data(bidding_timer)

\* ------------------------------------------------------------ start_auction
\* start_auction without the test of is_auction_live
start_auction_NoLiveCheck(ctx, op, limit) ==
    IF available_players = <<>>
    THEN /\ SetTask(ctx, IdleTask)
         /\ ev' = Ev(op, "auction_complete", 0, 0)
         /\ UNCHANGED <<round_vars, teams, catalog_vars, timer_vars, auction_history,
                        auction_stats, settings, round_seq, last_acc, disk_vars>>
    ELSE /\ round_seq < limit
         /\ \E i \in 1..Len(available_players) :
              /\ current_player' = available_players[i]
              /\ current_bid' = available_players[i].base_price
         /\ is_auction_live' = TRUE
         /\ highest_bidder_id' = NoUser
         /\ highest_bidder_name' = NoTeam
         /\ round_seq' = round_seq + 1
         /\ SetTask(ctx, Task("start_send", round_seq + 1, 0))
         /\ ev' = Ev(op, "opened", round_seq + 1, 0)
         /\ UNCHANGED <<teams, catalog_vars, timer_vars, auction_history, auction_stats,
                        settings, last_acc, disk_vars>>

\* start_auction up to its first await (profile lookup, then the announcement)
start_auction(ctx, op, limit) ==
    IF is_auction_live
    THEN /\ SetTask(ctx, IdleTask)
         /\ ev' = Ev(op, "already_live", round_seq, 0)
         /\ UNCHANGED <<round_vars, teams, catalog_vars, timer_vars, auction_history,
                        auction_stats, settings, round_seq, last_acc, disk_vars>>
    ELSE IF available_players = <<>>
    THEN /\ SetTask(ctx, IdleTask)
         /\ ev' = Ev(op, "auction_complete", 0, 0)
         /\ UNCHANGED <<round_vars, teams, catalog_vars, timer_vars, auction_history,
                        auction_stats, settings, round_seq, last_acc, disk_vars>>
    ELSE /\ round_seq < limit
         /\ \E i \in 1..Len(available_players) :
              /\ current_player' = available_players[i]
              /\ current_bid' = available_players[i].base_price
         /\ is_auction_live' = TRUE
         /\ highest_bidder_id' = NoUser
         /\ highest_bidder_name' = NoTeam
         /\ round_seq' = round_seq + 1
         /\ SetTask(ctx, Task("start_send", round_seq + 1, 0))
         /\ ev' = Ev(op, "opened", round_seq + 1, 0)
         /\ UNCHANGED <<teams, catalog_vars, timer_vars, auction_history, auction_stats,
                        settings, last_acc, disk_vars>>

start_auction_manual(limit) ==
    /\ h.pc = "idle"
    /\ start_auction(0, "start", limit)

\* the announcement was sent: arm the countdown and count the round
start_auction_armed(ctx) ==
    /\ TaskOf(ctx).pc = "start_send"
    /\ start_timer(jobs, settings.timer_duration, TaskOf(ctx).rnd)
    /\ auction_stats' = [auction_stats EXCEPT !.total_auctions = @ + 1]
    /\ SetTask(ctx, IdleTask)
    /\ ev' = Ev("start_armed", "ok", TaskOf(ctx).rnd, 0)
    /\ UNCHANGED <<round_vars, teams, catalog_vars, auction_history, settings, round_seq,
                   last_acc>>
    /\ save_data(bidding_timer')

\* asyncio.sleep(3) is over: the pending start_auction(context) runs
sleep_done(ctx, limit) ==
    /\ TaskOf(ctx).pc = "sleep"
    /\ TaskOf(ctx).rem = 0
    /\ start_auction(ctx, "auto_start", limit)

\* ---------------------------------------------------------------- bidding
Accepted(uid, amt) ==
    /\ current_bid' = amt
    /\ highest_bidder_id' = uid
    /\ highest_bidder_name' = TeamOfCaptain(uid)
    /\ last_acc' = [rnd |-> round_seq, amt |-> amt, team |-> TeamOfCaptain(uid), age |-> 0]
    /\ UNCHANGED <<is_auction_live, current_player>>

\* /bid with the too-low comparison made against the current bid alone
BidVerdict_NoIncrement(uid, amt) ==
    IF TeamOfCaptain(uid) = NoTeam THEN "not_captain"
    ELSE IF ~is_auction_live THEN "no_auction"
    ELSE IF FLt(amt, current_bid) THEN "too_low"
    ELSE IF FLt(teams[TeamOfCaptain(uid)].purse, amt) THEN "insufficient"
    ELSE "accepted"

\* the answer of the checks of /bid, in the order it makes them
BidVerdict(uid, amt) ==
    IF TeamOfCaptain(uid) = NoTeam THEN "not_captain"
    ELSE IF ~is_auction_live THEN "no_auction"
    ELSE IF FLt(amt, FAdd(current_bid, settings.bidding_increment)) THEN "too_low"
    ELSE IF FLt(teams[TeamOfCaptain(uid)].purse, amt) THEN "insufficient"
    ELSE "accepted"

\* /bid <amount> up to the await of the announcement
enhanced_bid_command(uid, amt) ==
    /\ h.pc = "idle"
    /\ ev' = Ev("bid", BidVerdict(uid, amt), round_seq, 0)
    /\ IF BidVerdict(uid, amt) = "accepted"
       THEN /\ Accepted(uid, amt)
            /\ h' = Task("bid_reply", round_seq, 0)
       ELSE UNCHANGED <<round_vars, last_acc, h>>
    /\ UNCHANGED <<teams, catalog_vars, timer_vars, auction_history, auction_stats,
                   settings, jt, round_seq>>
    /\ UNCHANGED disk_vars

\* the checks of the quick-bid button, in the order it makes them
ButtonVerdict(uid, amt) ==
    IF TeamOfCaptain(uid) = NoTeam THEN "not_captain"
    ELSE IF ~is_auction_live THEN "no_auction"
    ELSE IF FLt(amt, FAdd(current_bid, settings.bidding_increment)) THEN "too_low"
    ELSE IF FLt(teams[TeamOfCaptain(uid)].purse, amt) THEN "insufficient"
    ELSE "accepted"

\* the quick-bid button up to the await of the announcement; the announcement
\* subtracts datetime.now() from bidding_timer, a TypeError when it is None
quick_bid_button(uid, amt) ==
    /\ h.pc = "idle"
    /\ IF ButtonVerdict(uid, amt) = "accepted"
       THEN /\ Accepted(uid, amt)
            /\ IF bidding_timer = NoTimer
               THEN /\ h' = h
                    /\ ev' = Ev("quick_bid", "accepted_then_raised", round_seq, 0)
               ELSE /\ h' = Task("qbid_send", round_seq, 0)
                    /\ ev' = Ev("quick_bid", "accepted", round_seq, 0)
       ELSE /\ ev' = Ev("quick_bid", ButtonVerdict(uid, amt), round_seq, 0)
            /\ UNCHANGED <<round_vars, last_acc, h>>
    /\ UNCHANGED <<teams, catalog_vars, timer_vars, auction_history, auction_stats,
                   settings, jt, round_seq>>
    /\ UNCHANGED disk_vars

\* the announcement was sent: reset_timer(), start_timer(), save_data()
bid_rearm ==
    /\ h.pc \in {"bid_reply", "qbid_send"}
    /\ rearm_timer(settings.timer_duration, h.rnd)
    /\ h' = IdleTask
    /\ ev' = Ev("bid_rearm", "ok", h.rnd, 0)
    /\ UNCHANGED <<round_vars, teams, catalog_vars, auction_history, auction_stats,
                   settings, jt, round_seq, last_acc>>
    /\ save_data(bidding_timer')

\* -------------------------------------------------------------- settlement
ClearRound ==
    /\ is_auction_live' = FALSE
    /\ current_player' = NoLot
    /\ current_bid' = 0
    /\ highest_bidder_id' = NoUser
    /\ highest_bidder_name' = NoTeam

\* a record of auction_history; rnd and by note the round and the trigger
HistoryRecord(name, price, team, status, rnd, by) ==
    [player |-> name, price |-> price, team |-> team, status |-> status, rnd |-> rnd,
     by |-> by]

Enhanced(player, bid, bidder_name, rnd) ==
    [name |-> player.name, base_price |-> player.base_price, purchase_price |-> bid,
     purchased_by |-> bidder_name, auction_number |-> auction_stats.total_auctions,
     rnd |-> rnd]

SoldStats(bid, sale, sold_count) ==
    LET total == FAdd(auction_stats.total_amount_spent, bid)
        top == FGt(bid, auction_stats.highest_bid)
    IN  [total_auctions |-> auction_stats.total_auctions,
         total_amount_spent |-> total,
         highest_bid |-> IF top THEN bid ELSE auction_stats.highest_bid,
         most_expensive_player |->
             IF top THEN sale ELSE auction_stats.most_expensive_player,
         average_price |->
             IF sold_count > 0 THEN <<total, sold_count>> ELSE auction_stats.average_price]

\* team_data["players"].append(...) and the purse debit
Debit(team, sale, bid) ==
    [teams EXCEPT ![team].players = Append(@, sale),
                  ![team].purse = Round2(FSub(@, bid))]

\* conclude_auction up to its first await
conclude_auction(ctx, op, jrnd, hcap) ==
    LET player == current_player
        bid == current_bid
        bidder_name == highest_bidder_name
        team == TeamOfCaptain(highest_bidder_id)
        sale == Enhanced(player, bid, bidder_name, round_seq)
    IN
    /\ Len(auction_history) < hcap
    /\ \A n \in DOMAIN teams : Len(teams[n].players) < MaxRoster
    /\ reset_timer
    /\ UNCHANGED disk_vars
    /\ UNCHANGED <<round_vars, players, settings, round_seq, last_acc>>
    /\ IF highest_bidder_id # NoUser
       THEN IF team = NoTeam \/ FLt(teams[team].purse, bid)
            THEN /\ ev' = Ev(op, "refused", round_seq, jrnd)
                 /\ SetTask(ctx, IdleTask)
                 /\ UNCHANGED <<teams, available_players, sold_players, unsold_players,
                                auction_history, auction_stats>>
            ELSE /\ teams' = Debit(team, sale, bid)
                 /\ IF ~InList(player, available_players)
                    THEN /\ ev' = Ev(op, "debited_then_raised", round_seq, jrnd)
                         /\ SetTask(ctx, IdleTask)
                         /\ UNCHANGED <<available_players, sold_players, unsold_players,
                                        auction_history, auction_stats>>
                    ELSE /\ available_players' = ListRemove(player, available_players)
                         /\ sold_players' = Append(sold_players, sale)
                         /\ auction_history' = Append(auction_history,
                                HistoryRecord(player.name, bid, bidder_name, "Sold", round_seq, op))
                         /\ auction_stats' = SoldStats(bid, sale, Len(sold_players) + 1)
                         /\ ev' = Ev(op, "sold", round_seq, jrnd)
                         /\ SetTask(ctx, Task("concl_send", round_seq, 0))
                         /\ UNCHANGED unsold_players
       ELSE IF ~InList(player, available_players)
            THEN /\ ev' = Ev(op, "raised", round_seq, jrnd)
                 /\ SetTask(ctx, IdleTask)
                 /\ UNCHANGED <<teams, available_players, sold_players, unsold_players,
                                auction_history, auction_stats>>
            ELSE /\ available_players' = ListRemove(player, available_players)
                 /\ unsold_players' = Append(unsold_players, player)
                 /\ auction_history' = Append(auction_history,
                        HistoryRecord(player.name, 0, "N/A", "Unsold", round_seq, op))
                 /\ ev' = Ev(op, "unsold", round_seq, jrnd)
                 /\ SetTask(ctx, Task("concl_send", round_seq, 0))
                 /\ UNCHANGED <<teams, sold_players, auction_stats>>

end_auction_command(hcap) ==
    /\ h.pc = "idle"
    /\ IF ~is_auction_live
       THEN /\ ev' = Ev("end", "no_auction", 0, 0)
            /\ UNCHANGED <<round_vars, teams, catalog_vars, timer_vars, auction_history,
                           auction_stats, settings, h, jt, round_seq, last_acc, disk_vars>>
       ELSE conclude_auction(0, "end", 0, hcap)

\* the end of a round without the auto_next branch: no sleep, no next round
AfterRound_NoAdvance(ctx, op, results_when_left) ==
    IF available_players = <<>> \/ results_when_left
    THEN /\ SetTask(ctx, IdleTask)
         /\ ev' = Ev(op, "final_results", TaskOf(ctx).rnd, 0)
    ELSE /\ SetTask(ctx, IdleTask)
         /\ ev' = Ev(op, "closed", TaskOf(ctx).rnd, 0)

\* what follows the round's last message: sleep and start again, or the results
AfterRound(ctx, op, results_when_left) ==
    IF settings.auto_next /\ available_players # <<>>
    THEN /\ SetTask(ctx, Task("sleep", TaskOf(ctx).rnd, SleepSeconds))
         /\ ev' = Ev(op, "next", TaskOf(ctx).rnd, 0)
    ELSE IF available_players = <<>> \/ results_when_left
    THEN /\ SetTask(ctx, IdleTask)
         /\ ev' = Ev(op, "final_results", TaskOf(ctx).rnd, 0)
    ELSE /\ SetTask(ctx, IdleTask)
         /\ ev' = Ev(op, "closed", TaskOf(ctx).rnd, 0)

\* the sold or unsold message was sent: clear the round and go on
conclude_finish(ctx) ==
    /\ TaskOf(ctx).pc = "concl_send"
    /\ ClearRound
    /\ AfterRound(ctx, "conclude_done", FALSE)
    /\ UNCHANGED <<teams, catalog_vars, timer_vars, auction_history, auction_stats,
                   settings, round_seq, last_acc>>
    /\ save_data(bidding_timer)

\* /skip up to the await of its message
skip_player(hcap) ==
    /\ h.pc = "idle"
    /\ UNCHANGED <<round_vars, teams, players, sold_players, timer_vars, auction_stats,
                   settings, jt, round_seq, last_acc, disk_vars>>
    /\ IF ~is_auction_live
       THEN /\ ev' = Ev("skip", "no_auction", 0, 0)
            /\ UNCHANGED <<available_players, unsold_players, auction_history, h>>
       ELSE /\ Len(auction_history) < hcap
            /\ auction_history' = Append(auction_history,
                   HistoryRecord(current_player.name, 0, "N/A", "Skipped", round_seq, "skip"))
            /\ unsold_players' = Append(unsold_players, current_player)
            /\ IF ~InList(current_player, available_players)
               THEN /\ ev' = Ev("skip", "raised", round_seq, 0)
                    /\ UNCHANGED <<available_players, h>>
               ELSE /\ available_players' = ListRemove(current_player, available_players)
                    /\ ev' = Ev("skip", "skipped", round_seq, 0)
                    /\ h' = Task("skip_send", round_seq, 0)

\* the skip message was sent
skip_finish ==
    /\ h.pc = "skip_send"
    /\ ClearRound
    /\ reset_timer
    /\ AfterRound(0, "skip_done", TRUE)
    /\ UNCHANGED <<teams, catalog_vars, auction_history, auction_stats, settings,
                   round_seq, last_acc>>
    /\ save_data(bidding_timer')

\* -------------------------------------------------------------- job queue
RemoveAt(q, k) == [i \in 1..(Len(q) - 1) |-> IF i < k THEN q[i] ELSE q[i + 1]]

IdleSlots == {i \in 1..MaxJobTasks : jt[i].pc = "idle"}
FreeSlot == CHOOSE i \in IdleSlots : \A j \in IdleSlots : i <= j

\* the scheduler runs a due end_auction job: end_bid_automatically
end_bid_automatically(k, hcap) ==
    /\ k \in 1..Len(jobs)
    /\ jobs[k].name = "end_auction"
    /\ jobs[k].rem = 0
    /\ IF is_auction_live
       THEN /\ IdleSlots # {}
            /\ conclude_auction(FreeSlot, "auto_close", jobs[k].rnd, hcap)
       ELSE /\ jobs' = RemoveAt(jobs, k)
            /\ ev' = Ev("auto_close", "noop", 0, jobs[k].rnd)
            /\ UNCHANGED <<round_vars, teams, catalog_vars, bidding_timer,
                           timer_reminder_sent, auction_history, auction_stats, settings,
                           h, jt, round_seq, last_acc, disk_vars>>

\* the scheduler runs a due timer_reminder job: send_timer_reminder
send_timer_reminder(k) ==
    /\ k \in 1..Len(jobs)
    /\ jobs[k].name = "timer_reminder"
    /\ jobs[k].rem = 0
    /\ jobs' = RemoveAt(jobs, k)
    /\ IF is_auction_live /\ ~timer_reminder_sent
       THEN /\ timer_reminder_sent' = TRUE
            /\ ev' = Ev("reminder", "sent", round_seq, jobs[k].rnd)
       ELSE /\ timer_reminder_sent' = timer_reminder_sent
            /\ ev' = Ev("reminder", "noop", 0, jobs[k].rnd)
    /\ UNCHANGED <<round_vars, teams, catalog_vars, bidding_timer, auction_history,
                   auction_stats, settings, h, jt, round_seq, last_acc>>
    /\ UNCHANGED disk_vars

\* ------------------------------------------------------------------- time
Elapse(rem, d) == Max2(0, rem - d)

SleepOn(t, d) == IF t.pc = "sleep" THEN [t EXCEPT !.rem = Elapse(@, d)] ELSE t

\* the waits that are not over yet: pending jobs and sleeping tasks
Waits ==
    {jobs[i].rem : i \in 1..Len(jobs)} \cup {h.rem} \cup {jt[i].rem : i \in 1..MaxJobTasks}

NextDue ==
    LET P == {x \in Waits : x > 0}
    IN  IF P = {} THEN 0 ELSE CHOOSE x \in P : \A y \in P : x <= y

\* time passes until the next wait is over; the scheduler runs a job when it
\* is due, so no time passes over a job that is due
Tick ==
    LET d == NextDue IN
    /\ d > 0
    /\ \A i \in 1..Len(jobs) : jobs[i].rem > 0
    /\ jobs' = [i \in 1..Len(jobs) |-> [jobs[i] EXCEPT !.rem = Elapse(@, d)]]
    /\ bidding_timer' = IF bidding_timer = NoTimer THEN NoTimer ELSE Elapse(bidding_timer, d)
    /\ h' = SleepOn(h, d)
    /\ jt' = [i \in 1..MaxJobTasks |-> SleepOn(jt[i], d)]
    /\ last_acc' = IF is_auction_live /\ last_acc.rnd = round_seq
                   THEN [last_acc EXCEPT !.age = Min2(MaxAge, @ + d)]
                   ELSE last_acc
    /\ ev' = Ev("tick", "ok", 0, 0)
    /\ UNCHANGED <<round_vars, teams, catalog_vars, timer_reminder_sent, auction_history,
                   auction_stats, settings, round_seq>>
    /\ UNCHANGED disk_vars

\* --------------------------------------------------------- reset, settings
\* the confirm_reset button restoring the purses but keeping the squads
confirm_reset_KeepSquads ==
    /\ h.pc = "idle"
    /\ reset_timer
    /\ ClearRound
    /\ sold_players' = <<>>
    /\ unsold_players' = <<>>
    /\ auction_history' = <<>>
    /\ auction_stats' = NoStats
    /\ teams' = [n \in DOMAIN teams |-> [teams[n] EXCEPT !.purse = teams[n].original_purse]]
    /\ available_players' = players
    /\ ev' = Ev("reset", "ok", 0, 0)
    /\ UNCHANGED <<players, settings, h, jt, round_seq, last_acc>>
    /\ save_data(bidding_timer')

\* the confirm_reset button
confirm_reset ==
    /\ h.pc = "idle"
    /\ reset_timer
    /\ ClearRound
    /\ sold_players' = <<>>
    /\ unsold_players' = <<>>
    /\ auction_history' = <<>>
    /\ auction_stats' = NoStats
    /\ teams' = [n \in DOMAIN teams |->
                   [teams[n] EXCEPT !.purse = teams[n].original_purse, !.players = <<>>]]
    /\ available_players' = players
    /\ ev' = Ev("reset", "ok", 0, 0)
    /\ UNCHANGED <<players, settings, h, jt, round_seq, last_acc>>
    /\ save_data(bidding_timer')

\* /settings <setting> <value> with the clamps of timer and increment left out
settings_command_NoClamp(setting, value) ==
    /\ h.pc = "idle"
    /\ IF setting \notin KnownSettings
       THEN /\ settings' = settings
            /\ ev' = Ev("settings", "unknown", 0, 0)
            /\ UNCHANGED disk_vars
       ELSE IF value = Malformed /\ setting \in NumericSettings
       THEN /\ settings' = settings
            /\ ev' = Ev("settings", "invalid", 0, 0)
            /\ UNCHANGED disk_vars
       ELSE /\ settings' =
                 IF setting = "timer"
                 THEN [settings EXCEPT !.timer_duration = value]
                 ELSE IF setting = "reminder"
                 THEN [settings EXCEPT !.reminder_time = Max2(1, Min2(10, value))]
                 ELSE IF setting = "auto_next"
                 THEN [settings EXCEPT !.auto_next = (value = 1)]
                 ELSE IF setting = "increment"
                 THEN [settings EXCEPT !.bidding_increment = value]
                 ELSE settings
            /\ ev' = Ev("settings", setting, 0, 0)
            /\ save_data(bidding_timer)
    /\ UNCHANGED <<round_vars, teams, catalog_vars, timer_vars, auction_history,
                   auction_stats, h, jt, round_seq, last_acc>>

\* /settings <setting> <value>: an unknown name is answered and nothing is
\* saved; int() or float() raising ValueError is answered the same way; the
\* photos switch is not part of the modelled settings
settings_command(setting, value) ==
    /\ h.pc = "idle"
    /\ IF setting \notin KnownSettings
       THEN /\ settings' = settings
            /\ ev' = Ev("settings", "unknown", 0, 0)
            /\ UNCHANGED disk_vars
       ELSE IF value = Malformed /\ setting \in NumericSettings
       THEN /\ settings' = settings
            /\ ev' = Ev("settings", "invalid", 0, 0)
            /\ UNCHANGED disk_vars
       ELSE /\ settings' =
                 IF setting = "timer"
                 THEN [settings EXCEPT !.timer_duration = Max2(10, Min2(120, value))]
                 ELSE IF setting = "reminder"
                 THEN [settings EXCEPT !.reminder_time = Max2(1, Min2(10, value))]
                 ELSE IF setting = "auto_next"
                 THEN [settings EXCEPT !.auto_next = (value = 1)]
                 ELSE IF setting = "increment"
                 THEN [settings EXCEPT !.bidding_increment = Max2(100, value)]
                 ELSE settings
            /\ ev' = Ev("settings", setting, 0, 0)
            /\ save_data(bidding_timer)
    /\ UNCHANGED <<round_vars, teams, catalog_vars, timer_vars, auction_history,
                   auction_stats, h, jt, round_seq, last_acc>>

\* ---------------------------------------------------------------- failures
\* the awaited send raises (a network error): the task ends where it stands
send_fails(ctx) ==
    /\ TaskOf(ctx).pc \in {"start_send", "bid_reply", "qbid_send", "concl_send", "skip_send"}
    /\ SetTask(ctx, IdleTask)
    /\ ev' = Ev("send_fails", TaskOf(ctx).pc, TaskOf(ctx).rnd, 0)
    /\ UNCHANGED <<round_vars, teams, catalog_vars, timer_vars, auction_history,
                   auction_stats, settings, round_seq, last_acc>>
    /\ UNCHANGED disk_vars

\* ------------------------------------------------------------ specification
Ctxs == 0..MaxJobTasks

\* two rounds of a prepared auction, with every command and every failure
Next ==
    \/ start_auction_manual(MaxRounds)
    \/ \E c \in Ctxs : start_auction_armed(c)
    \/ \E c \in Ctxs : sleep_done(c, MaxRounds)
    \/ \E u \in Users, a \in BidInputs : enhanced_bid_command(u, a)
    \/ \E u \in Users, a \in ButtonInputs : quick_bid_button(u, a)
    \/ bid_rearm
    \/ end_auction_command(MaxHistory)
    \/ \E c \in Ctxs : conclude_finish(c)
    \/ skip_player(MaxHistory)
    \/ skip_finish
    \/ \E k \in 1..Len(jobs) : end_bid_automatically(k, MaxHistory)
    \/ \E k \in 1..Len(jobs) : send_timer_reminder(k)
    \/ Tick
    \/ confirm_reset
    \/ \E c \in Ctxs : send_fails(c)

Spec == Init /\ [][Next]_vars

\* one round with two acceptable bid amounts, one of them not a whole hundredth
NextBids ==
    \/ start_auction_manual(MaxRoundsOne)
    \/ \E c \in Ctxs : start_auction_armed(c)
    \/ \E u \in Users, a \in RichBidInputs : enhanced_bid_command(u, a)
    \/ \E u \in Users, a \in ButtonInputs : quick_bid_button(u, a)
    \/ bid_rearm
    \/ end_auction_command(MaxHistory)
    \/ \E c \in Ctxs : conclude_finish(c)
    \/ skip_player(MaxHistory)
    \/ skip_finish
    \/ \E k \in 1..Len(jobs) : end_bid_automatically(k, MaxHistory)
    \/ \E k \in 1..Len(jobs) : send_timer_reminder(k)
    \/ Tick
    \/ confirm_reset
    \/ \E c \in Ctxs : send_fails(c)

SpecBids == Init /\ [][NextBids]_vars

\* one lot, and captains who may bid "nan"
NextFloat ==
    \/ start_auction_manual(MaxRoundsOne)
    \/ \E c \in Ctxs : start_auction_armed(c)
    \/ \E u \in Users, a \in FloatBidInputs : enhanced_bid_command(u, a)
    \/ bid_rearm
    \/ end_auction_command(MaxHistory)
    \/ \E c \in Ctxs : conclude_finish(c)
    \/ \E k \in 1..Len(jobs) : end_bid_automatically(k, MaxHistory)
    \/ \E k \in 1..Len(jobs) : send_timer_reminder(k)
    \/ Tick
    \/ confirm_reset

SpecFloat == InitFrom(SavedTeams, ShortCatalog) /\ [][NextFloat]_vars

\* three lots nobody bids for: the rounds follow each other by auto_next
NextAuto ==
    \/ start_auction_manual(MaxRoundsAuto)
    \/ \E c \in Ctxs : start_auction_armed(c)
    \/ \E c \in Ctxs : sleep_done(c, MaxRoundsAuto)
    \/ end_auction_command(MaxHistoryAuto)
    \/ \E c \in Ctxs : conclude_finish(c)
    \/ \E k \in 1..Len(jobs) : end_bid_automatically(k, MaxHistoryAuto)
    \/ \E k \in 1..Len(jobs) : send_timer_reminder(k)
    \/ Tick

SpecAuto == InitFrom(NoTeams, LongCatalog) /\ [][NextAuto]_vars

\* one round during which an admin may give a team another captain
NextCaptain ==
    \/ start_auction_manual(MaxRoundsOne)
    \/ \E c \in Ctxs : start_auction_armed(c)
    \/ \E u \in Users, a \in OneBidInputs : enhanced_bid_command(u, a)
    \/ bid_rearm
    \/ \E n \in TeamNames, u \in Users \cup NewCaptains : set_captain(n, u)
    \/ end_auction_command(MaxHistory)
    \/ \E c \in Ctxs : conclude_finish(c)
    \/ \E k \in 1..Len(jobs) : end_bid_automatically(k, MaxHistory)
    \/ \E k \in 1..Len(jobs) : send_timer_reminder(k)
    \/ Tick

SpecCaptain == InitFrom(SavedTeams, ShortCatalog) /\ [][NextCaptain]_vars

\* the preparation of an auction: teams, captains, catalog and settings
NextSetup ==
    \/ \E n \in TeamNames, p \in PurseInputs : register(n, p)
    \/ \E n \in TeamNames, u \in Users : set_captain(n, u)
    \/ load_players
    \/ \E s \in SettingNames, v \in SettingInputs : settings_command(s, v)

SpecSetup == InitFrom(NoTeams, <<>>) /\ [][NextSetup]_vars

\* two lots nobody bids for, while an admin switches auto_next off and on
NextManual ==
    \/ start_auction_manual(MaxRounds)
    \/ \E c \in Ctxs : start_auction_armed(c)
    \/ \E c \in Ctxs : sleep_done(c, MaxRounds)
    \/ end_auction_command(MaxHistory)
    \/ \E c \in Ctxs : conclude_finish(c)
    \/ skip_player(MaxHistory)
    \/ skip_finish
    \/ \E k \in 1..Len(jobs) : end_bid_automatically(k, MaxHistory)
    \/ \E k \in 1..Len(jobs) : send_timer_reminder(k)
    \/ Tick
    \/ \E v \in SwitchInputs : settings_command("auto_next", v)

SpecManual == InitFrom(NoTeams, Catalog) /\ [][NextManual]_vars

\* one lot and one round, with a team registered, captained, reset and the
\* settings changed at any moment
NextSeason ==
    \/ \E n \in OneTeamName, p \in FreshPurses : register(n, p)
    \/ \E n \in OneTeamName, u \in Users : set_captain(n, u)
    \/ \E s \in SettingNames, v \in LowSettingInputs : settings_command(s, v)
    \/ start_auction_manual(MaxRoundsOne)
    \/ \E c \in Ctxs : start_auction_armed(c)
    \/ \E u \in Users, a \in OneBidInputs : enhanced_bid_command(u, a)
    \/ bid_rearm
    \/ end_auction_command(MaxHistory)
    \/ \E c \in Ctxs : conclude_finish(c)
    \/ skip_player(MaxHistory)
    \/ skip_finish
    \/ \E k \in 1..Len(jobs) : end_bid_automatically(k, MaxHistory)
    \/ \E k \in 1..Len(jobs) : send_timer_reminder(k)
    \/ Tick
    \/ confirm_reset

SpecSeason == InitFrom(NoTeams, ShortCatalog) /\ [][NextSeason]_vars

\* the scheduling of the event loop: time passes, the job queue runs the jobs
\* that are due, and an awaited send that does not raise returns
Scheduling ==
    /\ WF_vars(Tick)
    /\ WF_vars(\E k \in 1..Len(jobs) : end_bid_automatically(k, MaxHistory))
    /\ WF_vars(\E k \in 1..Len(jobs) : send_timer_reminder(k))
    /\ WF_vars(\E c \in Ctxs : start_auction_armed(c))
    /\ WF_vars(bid_rearm)
    /\ WF_vars(\E c \in Ctxs : conclude_finish(c))

\* SpecCaptain with every timer firing and every send delivered
SpecCaptainFair == SpecCaptain /\ Scheduling

\* the one /start_auction of an auction that auto_next carries on
first_start ==
    /\ round_seq = 0
    /\ start_auction_manual(MaxRounds)

\* a prepared auction left to itself after /start_auction: captains bid, the
\* timers close the rounds, an admin may skip a lot, auto_next stays on
NextRun ==
    \/ first_start
    \/ \E c \in Ctxs : start_auction_armed(c)
    \/ \E c \in Ctxs : sleep_done(c, MaxRounds)
    \/ \E u \in Users, a \in OneBidInputs : enhanced_bid_command(u, a)
    \/ \E u \in Users, a \in ButtonInputs : quick_bid_button(u, a)
    \/ bid_rearm
    \/ \E c \in Ctxs : conclude_finish(c)
    \/ skip_player(MaxHistory)
    \/ skip_finish
    \/ \E k \in 1..Len(jobs) : end_bid_automatically(k, MaxHistoryRun)
    \/ \E k \in 1..Len(jobs) : send_timer_reminder(k)
    \/ Tick

SpecRun == InitFrom(SavedTeams, Catalog) /\ [][NextRun]_vars

\* the event loop of SpecRun: every sleep ends and every send returns
SchedulingRun ==
    /\ WF_vars(Tick)
    /\ WF_vars(\E k \in 1..Len(jobs) : end_bid_automatically(k, MaxHistoryRun))
    /\ WF_vars(\E k \in 1..Len(jobs) : send_timer_reminder(k))
    /\ WF_vars(\E c \in Ctxs : start_auction_armed(c))
    /\ WF_vars(\E c \in Ctxs : sleep_done(c, MaxRounds))
    /\ WF_vars(bid_rearm)
    /\ WF_vars(\E c \in Ctxs : conclude_finish(c))
    /\ WF_vars(skip_finish)

SpecRunFair == SpecRun /\ SchedulingRun

\* one round whose countdown an admin retunes with /settings timer and
\* /settings reminder
NextTimers ==
    \/ \E s \in TimerSettingNames, v \in SettingInputs : settings_command(s, v)
    \/ start_auction_manual(MaxRoundsOne)
    \/ \E c \in Ctxs : start_auction_armed(c)
    \/ \E u \in Users, a \in OneBidInputs : enhanced_bid_command(u, a)
    \/ bid_rearm
    \/ \E c \in Ctxs : conclude_finish(c)
    \/ \E k \in 1..Len(jobs) : end_bid_automatically(k, MaxHistory)
    \/ \E k \in 1..Len(jobs) : send_timer_reminder(k)
    \/ Tick

SpecTimers == InitFrom(SavedTeams, ShortCatalog) /\ [][NextTimers]_vars

\* an admin typing any /settings command, known or not, well-formed or not
NextSettings ==
    \E s \in TypedSettingNames, v \in TypedSettingInputs : settings_command(s, v)

SpecSettings == InitFrom(SavedTeams, Catalog) /\ [][NextSettings]_vars

\* -------------------------------------------------------------- properties
RECURSIVE SumPrices(_)
SumPrices(roster) ==
    IF roster = <<>> THEN 0
    ELSE FAdd(roster[1].purchase_price, SumPrices(Tail(roster)))

HistoryOfRound(k) == {i \in 1..Len(auction_history) : auction_history[i].rnd = k}

DebitsOfRound(k) ==
    {<<n, i>> \in (DOMAIN teams) \X (1..MaxRoster) :
        i <= Len(teams[n].players) /\ teams[n].players[i].rnd = k}

JobsNamed(name) == {i \in 1..Len(jobs) : jobs[i].name = name}

AcceptedResults == {"accepted", "accepted_then_raised"}

\* round k was closed by /end_auction and that conclusion ran to its end
ManuallyClosed(k) ==
    /\ \E i \in HistoryOfRound(k) : auction_history[i].by = "end"
    /\ ~(is_auction_live /\ round_seq = k)

\* C1: each opened round is settled at most once: at most one history record
\* and at most one purse debit carry its number.
C1_SettledOnce ==
    \A k \in 1..round_seq :
        /\ Cardinality(HistoryOfRound(k)) <= 1
        /\ Cardinality(DebitsOfRound(k)) <= 1

\* C2: after every settlement and every reset, every team's purse is its
\* original purse minus the sum of the purchase prices in its roster.
C2_Ledger ==
    ev.op \in {"end", "auto_close", "skip", "reset"} =>
        \A n \in DOMAIN teams :
            FEq(teams[n].purse, FSub(teams[n].original_purse, SumPrices(teams[n].players)))

\* C3: every team's purse is >= 0 in every reachable state.
C3_PurseNonNegative == \A n \in DOMAIN teams : FLe(0, teams[n].purse)

\* C4: an accepted bid exceeds the previous current_bid by at least the minimum
\* increment, and the bidding team's purse covers it.
C4_BidsIncrease ==
    [][ev'.op \in {"bid", "quick_bid"} /\ ev'.res \in AcceptedResults
         => /\ FLe(FAdd(current_bid, settings.bidding_increment), current_bid')
            /\ FLe(current_bid', teams[highest_bidder_name'].purse)]_vars

\* the cases in which C5 says a bid is rejected
RejectCase(uid, amt) ==
    \/ ~is_auction_live
    \/ FLt(amt, FAdd(current_bid, settings.bidding_increment))
    \/ /\ TeamOfCaptain(uid) # NoTeam
       /\ FGt(amt, teams[TeamOfCaptain(uid)].purse)

\* C5: a bid is rejected when no round is live, when it is below current_bid
\* plus the increment, or when it exceeds the bidder's purse; a rejected bid
\* leaves the bid, the leader, the deadline, the timers and the purses unchanged.
C5_Rejected ==
    [][ev'.op \in {"bid", "quick_bid"} =>
        /\ ev'.res \notin AcceptedResults
             => UNCHANGED <<current_bid, highest_bidder_id, highest_bidder_name,
                            bidding_timer, jobs, teams>>
        /\ ev'.res \in AcceptedResults
             => \A u \in Users, a \in BidInputs \cup ButtonInputs :
                    (enhanced_bid_command(u, a) \/ quick_bid_button(u, a))
                        => ~RejectCase(u, a)]_vars

C5_Witness ==
    /\ ev.op = "bid"
    /\ ev.res = "too_low"
    /\ is_auction_live
    /\ current_bid = 200
    /\ Len(jobs) > 0

\* C6: once a round was concluded manually, the auto-close timer armed for it
\* does nothing when it fires.
C6_TimerAfterManual ==
    ev.op = "auto_close" /\ ev.jrnd # 0 /\ ManuallyClosed(ev.jrnd) => ev.res = "noop"

\* C7: a timer armed for one round never acts on another round.
C7_TimersOwnRound ==
    ev.op \in {"auto_close", "reminder"} /\ ev.res # "noop" => ev.jrnd = ev.rnd

\* C8: at most one auto-close timer and at most one reminder timer are pending.
C8_OneTimerPerName ==
    /\ Cardinality(JobsNamed("end_auction")) <= 1
    /\ Cardinality(JobsNamed("timer_reminder")) <= 1

\* C9: a re-armed deadline is a full timer_duration away, and no round is
\* auto-closed sooner than timer_duration after its last accepted bid.
C9_FullCountdown ==
    /\ ev.op = "bid_rearm" => bidding_timer = settings.timer_duration
    /\ ev.op = "auto_close" /\ ev.res \in {"sold", "unsold"} /\ last_acc.rnd = ev.rnd
         => last_acc.age >= settings.timer_duration

\* C10: a round closed as sold records the amount and the team of the last bid
\* accepted in that round.
C10_LastBidWins ==
    \A i \in 1..Len(auction_history) :
        LET rec == auction_history[i] IN
        /\ rec.status = "Sold"
        /\ last_acc.rnd = rec.rnd
        /\ ~(is_auction_live /\ round_seq = rec.rnd)
        => rec.price = last_acc.amt /\ rec.team = last_acc.team

ConcludeOps == {"end", "auto_close"}

LotIn(lot, s) == \E i \in 1..Len(s) : s[i].name = lot.name

\* the live round has a leader whose team is found and whose purse covers the bid
LeaderCovers ==
    /\ is_auction_live
    /\ highest_bidder_id # NoUser
    /\ TeamOfCaptain(highest_bidder_id) # NoTeam
    /\ FLe(current_bid, teams[TeamOfCaptain(highest_bidder_id)].purse)

\* C11: concluding a round whose leader's purse covers current_bid debits that
\* team by exactly current_bid, appends one roster entry at that price, moves
\* the lot from available to sold, appends one Sold history record with that
\* price and team, and leaves every other team unchanged.
C11_SoldEffects ==
    [][ev'.op \in ConcludeOps /\ LeaderCovers =>
        LET t == TeamOfCaptain(highest_bidder_id) IN
        /\ teams'[t].purse = teams[t].purse - current_bid
        /\ Len(teams'[t].players) = Len(teams[t].players) + 1
        /\ teams'[t].players[Len(teams'[t].players)].name = current_player.name
        /\ teams'[t].players[Len(teams'[t].players)].purchase_price = current_bid
        /\ \A n \in DOMAIN teams \ {t} : teams'[n] = teams[n]
        /\ ~LotIn(current_player, available_players')
        /\ LotIn(current_player, sold_players')
        /\ Len(auction_history') = Len(auction_history) + 1
        /\ auction_history'[Len(auction_history')].status = "Sold"
        /\ auction_history'[Len(auction_history')].price = current_bid
        /\ auction_history'[Len(auction_history')].team = highest_bidder_name]_vars

\* C12: concluding a round with no leading team moves the lot from available
\* to unsold, appends one Unsold history record with price 0, and leaves every
\* purse, every roster and total_amount_spent unchanged.
C12_UnsoldEffects ==
    [][ev'.op \in ConcludeOps /\ is_auction_live /\ highest_bidder_id = NoUser =>
        /\ ~LotIn(current_player, available_players')
        /\ LotIn(current_player, unsold_players')
        /\ Len(auction_history') = Len(auction_history) + 1
        /\ auction_history'[Len(auction_history')].status = "Unsold"
        /\ auction_history'[Len(auction_history')].price = 0
        /\ teams' = teams
        /\ auction_stats'.total_amount_spent = auction_stats.total_amount_spent]_vars

\* C13: a settlement that cannot resolve the leading team, or finds its purse
\* below current_bid, changes no purse, roster, catalog set, history or stats,
\* and leaves the round open: live, bid and leader intact, and a countdown
\* (pending, or about to be re-armed by a bid in progress) able to close it.
C13_RefusedKeepsRoundOpen ==
    [][ev'.op \in ConcludeOps /\ is_auction_live /\ highest_bidder_id # NoUser
         /\ ~LeaderCovers =>
        /\ UNCHANGED <<teams, catalog_vars, auction_history, auction_stats, round_vars>>
        /\ \/ \E i \in 1..Len(jobs') : jobs'[i].name = "end_auction"
           \/ h'.pc \in {"bid_reply", "qbid_send"}]_vars

\* C14: /skip on a live round moves the lot from available to unsold and
\* appends one Skipped history record with price 0; when it is done the round
\* is cleared and its timers are cancelled; from the skip to its end no purse
\* is debited and no roster grows, whatever fires meanwhile; /skip with no
\* live round changes nothing.
C14_SkipEffects ==
    [][/\ ev'.op = "skip" /\ is_auction_live =>
            /\ ~LotIn(current_player, available_players')
            /\ LotIn(current_player, unsold_players')
            /\ Len(auction_history') = Len(auction_history) + 1
            /\ auction_history'[Len(auction_history')].status = "Skipped"
            /\ auction_history'[Len(auction_history')].price = 0
            /\ teams' = teams
       /\ ev'.op = "skip" /\ ~is_auction_live =>
            UNCHANGED <<round_vars, teams, catalog_vars, timer_vars, auction_history,
                        auction_stats, settings, h, jt>>
       /\ h.pc = "skip_send" => teams' = teams
       /\ ev'.op = "skip_done" =>
            /\ ~is_auction_live'
            /\ current_player' = NoLot
            /\ jobs' = <<>>]_vars

\* C15: a confirmed reset issued while a round is live is rejected: the round,
\* the ledger, the catalog sets, the history, the stats and the timers stay as
\* they were.
C15_ResetOnlyWhenIdle ==
    [][ev'.op = "reset" /\ is_auction_live =>
        UNCHANGED <<round_vars, teams, catalog_vars, timer_vars, auction_history,
                    auction_stats>>]_vars

SetsHolding(lot) ==
    {x \in {"available", "sold", "unsold"} :
        \/ x = "available" /\ LotIn(lot, available_players)
        \/ x = "sold" /\ LotIn(lot, sold_players)
        \/ x = "unsold" /\ LotIn(lot, unsold_players)}

\* C17: every loaded lot is in exactly one of the available, sold and unsold
\* sets, in every reachable state.
C17_LotInOneSet == \A i \in 1..Len(players) : Cardinality(SetsHolding(players[i])) = 1

StartOps == {"start", "auto_start"}

C19_LiveRoundShape ==
    is_auction_live =>
        /\ InList(current_player, available_players)
        /\ FLe(current_player.base_price, current_bid)
        /\ (FEq(current_bid, current_player.base_price) <=> highest_bidder_id = NoUser)

CaptainsInjective ==
    \A n, m \in DOMAIN teams :
        n # m /\ teams[n].captain_id # NoUser => teams[n].captain_id # teams[m].captain_id

\* C20: no user is the captain of two teams, and /set_captain for a user who
\* already captains a team changes no team's captain.
C20_CaptainsInjective ==
    [][/\ CaptainsInjective
       /\ CaptainsInjective'
       /\ \A n \in TeamNames, u \in Users :
             set_captain(n, u) /\ (\E m \in DOMAIN teams : teams[m].captain_id = u)
                => teams' = teams]_vars

\* a captain was refused for a second team that has no captain yet
C20_Witness ==
    /\ ev.op = "set_captain"
    /\ ev.res = "already_captain"
    /\ \E n, m \in DOMAIN teams : teams[n].captain_id = NoUser /\ teams[m].captain_id # NoUser

\* C21: the final results are sent only when no lot is left available: a
\* settlement or a skip that leaves lots available sends none, with auto_next
\* on or off
C21_ResultsOnlyWhenExhausted ==
    ev.res = "final_results" => available_players = <<>>

\* C22: a lot that closed as Unsold is offered again in a later round of the
\* same auction: /start_auction never answers that no player is left while a
\* lot waits in unsold_players
C22_UnsoldOfferedAgain ==
    ev.res = "auction_complete" => unsold_players = <<>>

\* C23: original_purse is the purse given at registration and no step changes
\* it afterwards (bids, settlements, skips, captain and settings changes,
\* resets); /register of a name that exists leaves the team as it was
C23_OriginalPurseFixed ==
    [][/\ \A n \in DOMAIN teams :
            /\ n \in DOMAIN teams'
            /\ teams'[n].original_purse = teams[n].original_purse
       /\ \A n \in OneTeamName, p \in FreshPurses :
            register(n, p) =>
                IF n \in DOMAIN teams
                THEN teams' = teams /\ ev'.res = "rejected"
                ELSE teams'[n].original_purse = p]_vars

\* a second /register of a team is rejected after a sale has debited a purse
C23_Witness ==
    /\ ev.op = "register"
    /\ ev.res = "rejected"
    /\ \E n \in DOMAIN teams : teams[n].purse # teams[n].original_purse

\* C24: whatever saves were made, those whose write failed included, the
\* backup file never holds a snapshot that was not written completely
C24_BackupComplete == db_backup # Partial

\* the steps that begin the handling of a command, a button or a timer job
EventOps ==
    {"start", "bid", "quick_bid", "end", "skip", "reset", "settings", "auto_close",
     "reminder"}

\* C25: transitions are atomic for the other events: no command and no timer
\* callback begins in a state where the round is still marked live although
\* its lot has left the available set or is already in the sold or unsold set
C25_EventsSeeWholeTransitions ==
    [][ev'.op \in EventOps =>
          (is_auction_live =>
              /\ InList(current_player, available_players)
              /\ ~LotIn(current_player, sold_players)
              /\ ~LotIn(current_player, unsold_players))]_vars

\* C26: a send that raises never leaves a transition half-applied: after a
\* failed announcement of a round, the round (if it is still live) has its
\* deadline and its auto-close job; after a failed sold, unsold or skip
\* message, the round it closed is no longer live
C26_NoHalfTransition ==
    ev.op = "send_fails" /\ ev.rnd = round_seq /\ is_auction_live =>
        /\ ev.res \notin {"concl_send", "skip_send"}
        /\ ev.res = "start_send" =>
              bidding_timer # NoTimer /\ JobsNamed("end_auction") # {}

\* C27: with the timers firing and the messages delivered, every round that
\* is opened is closed in the end
C27_RoundsClose == is_auction_live ~> ~is_auction_live

\* no lot is left and no round is live
Exhausted == available_players = <<>> /\ ~is_auction_live

\* C28: with auto_next on, a started auction runs to completion without
\* further admin commands: every live round leads to the final results with no
\* lot left available, a round closed with lots left leads to a new round,
\* the final results are sent only when no lot is left, and once the auction
\* is exhausted no step sends them again
C28_RunsToCompletion ==
    /\ is_auction_live ~> (ev.res = "final_results" /\ Exhausted)
    /\ (ev.res = "next") ~> (ev.op = "auto_start" /\ ev.res = "opened")
    /\ [](ev.res = "final_results" => Exhausted)
    /\ [][Exhausted => Exhausted' /\ ev'.res # "final_results"]_vars

\* the final results sent after a sale in a round that auto_next opened
C28_Witness ==
    /\ ev.res = "final_results"
    /\ round_seq = 2
    /\ Len(sold_players) > 0
    /\ \E i \in 1..Len(auction_history) : auction_history[i].status = "Skipped"

\* the steps that arm a countdown: the start of a round and an accepted bid
ArmOps == {"start_armed", "bid_rearm"}

\* a pending job of that name due in rem seconds
Pending(name, rem) == \E i \in JobsNamed(name) : jobs[i].rem = rem

C30_ReminderOfItsRound ==
    [][ev'.op = "reminder" /\ ev'.res = "sent" =>
          /\ is_auction_live
          /\ ~timer_reminder_sent
          /\ ev'.jrnd = round_seq]_vars

\* no handler and no job callback is in the middle of its work
Quiet == h.pc = "idle" /\ \A i \in 1..MaxJobTasks : jt[i].pc = "idle"

\* C31: when no round is live and no transition is in progress, neither a
\* reminder job nor an auto-close job is pending
C31_IdleSchedulerEmpty ==
    ~is_auction_live /\ Quiet =>
        JobsNamed("timer_reminder") = {} /\ JobsNamed("end_auction") = {}

\* the prices of the Sold records of the history, in the order of the sales
SoldPrices ==
    LET S == SelectSeq(auction_history, LAMBDA r : r.status = "Sold")
    IN  [i \in 1..Len(S) |-> S[i].price]

RECURSIVE SumOf(_)
SumOf(q) == IF q = <<>> THEN 0 ELSE FAdd(SumOf(SubSeq(q, 1, Len(q) - 1)), q[Len(q)])

\* the running maximum as `if bid > highest_bid` would keep it over q
RECURSIVE MaxOf(_)
MaxOf(q) ==
    IF q = <<>> THEN 0
    ELSE LET m == MaxOf(SubSeq(q, 1, Len(q) - 1))
         IN  IF \A i \in 1..Len(q) : FLe(q[i], q[Len(q)]) THEN q[Len(q)] ELSE m

StatsAgree ==
    /\ FEq(auction_stats.total_amount_spent, SumOf(SoldPrices))
    /\ FEq(auction_stats.highest_bid, MaxOf(SoldPrices))
    /\ SoldPrices # <<>> =>
          /\ auction_stats.most_expensive_player # NoSale
          /\ FEq(auction_stats.most_expensive_player.purchase_price,
                 auction_stats.highest_bid)
          /\ auction_stats.average_price =
                 <<auction_stats.total_amount_spent, Len(SoldPrices)>>

\* C32: the aggregate stats agree with the history (total, highest bid, most
\* expensive sale, average over the sold lots), and an unsold or skipped
\* closure leaves them unchanged
C32_StatsAgree ==
    /\ []StatsAgree
    /\ [][ev'.res \in {"unsold", "skipped"} => auction_stats' = auction_stats]_vars


\* the step keeps every record of the history where it is
HistoryKept ==
    /\ Len(auction_history') >= Len(auction_history)
    /\ SubSeq(auction_history', 1, Len(auction_history)) = auction_history

\* the results of a step that settles the lot of a round
SettlementResults == {"sold", "unsold", "skipped", "debited_then_raised"}

\* C33: between resets the history is append-only: every step other than a
\* confirmed reset keeps the existing records in place, and every step that
\* settles a lot appends exactly one record
C33_HistoryAppendOnly ==
    [][/\ ev'.op # "reset" => HistoryKept
       /\ ev'.res \in SettlementResults /\ ev'.op \in ConcludeOps \cup {"skip"} =>
              /\ HistoryKept
              /\ Len(auction_history') = Len(auction_history) + 1]_vars


\* the teams whose purse or roster the step changes
TeamsChanged == {n \in DOMAIN teams : teams'[n] # teams[n]}

\* C34: a settlement that sells the lot debits the team that placed the winning
\* bid, and that team is the one named in the Sold record and in the
\* purchased_by field of the roster entry, whoever the captains are by then
C34_DebitedTeamIsBidder ==
    [][ev'.op \in ConcludeOps /\ ev'.res = "sold" =>
          \A n \in TeamsChanged :
              /\ n = highest_bidder_name
              /\ auction_history'[Len(auction_history')].team = n
              /\ teams'[n].players[Len(teams'[n].players)].purchased_by = n]_vars


\* C35: whenever a round is live and no transition is in progress, a deadline
\* is set and an auto-close job is pending
C35_LiveRoundHasCountdown ==
    is_auction_live /\ Quiet =>
        bidding_timer # NoTimer /\ JobsNamed("end_auction") # {}


\* the number of roster entries, over all teams, that hold the lot
RECURSIVE RosterCount(_, _)
RosterCount(lot, names) ==
    IF names = {} THEN 0
    ELSE LET n == CHOOSE x \in names : TRUE
         IN  Len(SelectSeq(teams[n].players, LAMBDA e : e.name = lot.name))
             + RosterCount(lot, names \ {n})

\* C36: no lot is owned twice, and a lot is in the sold set exactly when it is
\* in exactly one team's roster
C36_OwnedOnce ==
    \A i \in 1..Len(LongCatalog) :
        LET lot == LongCatalog[i]
            owned == RosterCount(lot, DOMAIN teams)
        IN  /\ owned <= 1
            /\ LotIn(lot, sold_players) <=> owned = 1


\* C37: when no transition is in progress, total_auctions is the number of
\* history records, plus one if a round is live
C37_RoundsCounted ==
    Quiet =>
        auction_stats.total_auctions
            = Len(auction_history) + (IF is_auction_live THEN 1 ELSE 0)


\* C38: the quick-bid button and /bid give the same answer to the same bidder
\* and amount in every state, and an accepted bid of either path records the
\* amount and the leading team and goes on to announce the bid and re-arm the
\* countdown
C38_QuickBidAsBid ==
    /\ [](\A u \in Users, a \in ButtonInputs : ButtonVerdict(u, a) = BidVerdict(u, a))
    /\ [][ev'.op \in {"bid", "quick_bid"} /\ ev'.res \in AcceptedResults =>
              /\ current_bid' = last_acc'.amt
              /\ highest_bidder_name' = last_acc'.team
              /\ h'.pc \in {"bid_reply", "qbid_send"}]_vars


SettingsInRange ==
    /\ settings.timer_duration \in 10..120
    /\ settings.reminder_time \in 1..10
    /\ settings.bidding_increment >= 100

\* C39: after any sequence of /settings commands timer_duration is within
\* 10..120, reminder_time within 1..10 and bidding_increment at least 0.1, and
\* a command with an unknown name or with a value that is not a number
\* changes no setting
C39_SettingsInRange ==
    /\ []SettingsInRange
    /\ [][ev'.op = "settings" /\ ev'.res \in {"unknown", "invalid"} =>
              settings' = settings]_vars

\* a command was rejected after the timer was clamped from below and the
\* increment was raised above its least value
C39_Witness ==
    /\ ev.op = "settings" /\ ev.res \in {"unknown", "invalid"}
    /\ settings.timer_duration = 10
    /\ settings.bidding_increment = 500

====
